---- MODULE Spec2Model ----
(***************************************************************************)
(* Concept-map generator: the tree builder, the two-pass layout, the       *)
(* expansion mutator (src/src/services/concept-map-generator.ts) and the   *)
(* Home orchestrator (src/src/app/page.tsx, ConfigPanel.tsx).              *)
(*                                                                         *)
(* JavaScript objects live in a heap: a sequence of cells, an object       *)
(* reference is an index into it, and a cell's hijos is a sequence of      *)
(* references.  Read-only algorithms (calcHeight, layoutFromTree,          *)
(* findLeafNodes) are written over the value a reference denotes.          *)
(*                                                                         *)
(* Strings built with template literals are kept as their sequence of      *)
(* "-"-separated tokens: `sub-${i}-${j}` is <<"sub", ToStr(i), ToStr(j)>>, *)
(* and embedding an id in another id concatenates the token sequences.     *)
(*                                                                         *)
(* Vertical coordinates are kept in quarter pixels (YScale), so that the   *)
(* halvings and the 2.5 multiplier of the layout stay exact integers.      *)
(***************************************************************************)
EXTENDS Integers, Sequences, FiniteSets, TLC

VARIABLES
  \* the tree functions called directly
  api,          \* the arguments given to buildTreeFromApi
  heap,         \* the objects allocated so far
  treeRef,      \* the ConceptTree last returned (a reference)
  inputRef,     \* the argument of the last addExpansionsToTree call
  inputBefore,  \* the value inputRef denoted when that call started
  lastExp,      \* the expansions of that call
  lastNow,      \* Date.now() during that call
  lastThrew,    \* whether that call raised an error
  calls,        \* addExpansionsToTree calls made
  layoutCalls,  \* the latest layoutFromTree calls: the tree's shape, the result
  \* the environment
  clock,        \* the latest Date.now() seen
  pending,      \* the collaborator calls awaiting their response, oldest first
  requests,     \* collaborator calls made so far
  \* the state of Home
  nodes,
  edges,
  isLoading,
  isExpanding,
  error,
  hasGenerated,
  currentConfig,
  expansionCount,
  conceptTree

treeVars ==
  <<api, heap, treeRef, inputRef, inputBefore, lastExp, lastNow, lastThrew, calls,
    layoutCalls>>

homeVars ==
  <<pending, requests, nodes, edges, isLoading, isExpanding, error, hasGenerated,
    currentConfig, expansionCount, conceptTree>>

vars == <<treeVars, clock, homeVars>>

(* ------------------------------------------------------------------ *)
(* Bounds of the model                                                 *)
(* ------------------------------------------------------------------ *)
MaxConceptos == 2
MaxEntries == 2
MaxExpandCalls == 2
MaxNow == 1
MaxRequests == 4
MaxLayoutCalls == 2
MaxBranches == 11

(* ------------------------------------------------------------------ *)
(* Program constants                                                   *)
(* ------------------------------------------------------------------ *)
LEVEL_X_GAP == 320
NODE_HEIGHT == 140
NODE_VERTICAL_GAP == 45
BRANCH_GAP_MULTIPLIER_TENTHS == 25
START_X == 50
MAX_EXPANSIONS == 2
MAX_TARGETS == 4

BRANCH_COLORS ==
  << "#c0392b", "#2980b9", "#27ae60", "#8e44ad", "#d35400",
     "#16a085", "#c71585", "#00838f", "#558b2f", "#e65100" >>

ROOT_COLOR == "#6366f1"

\* quarter pixels: one halving of a half-pixel quantity is the finest step
YScale == 2 * 2

\* NODE_VERTICAL_GAP * BRANCH_GAP_MULTIPLIER, in quarter pixels
BranchGapY == (NODE_VERTICAL_GAP * BRANCH_GAP_MULTIPLIER_TENTHS * YScale) \div 10

(* ------------------------------------------------------------------ *)
(* JavaScript values                                                   *)
(* ------------------------------------------------------------------ *)
\* the value undefined of a string-typed property
Undefined == "<undefined>"

\* the reference null
Null == 0

Has(obj, key) == key \in DOMAIN obj

\* obj[key] as JavaScript reads it: undefined when the key is absent
Get(obj, key) == IF Has(obj, key) THEN obj[key] ELSE Undefined

\* `${n}` for the indices and timestamps of the model
NumStr ==
  << "0", "1", "2", "3", "4", "5", "6", "7", "8", "9", "10", "11", "12" >>

ToStr(n) == NumStr[n + 1]

RECURSIVE SeqsUpTo(_, _)
\* the sequences over S of length 0..n
SeqsUpTo(S, n) ==
  IF n = 0 THEN { <<>> }
  ELSE LET shorter == SeqsUpTo(S, n - 1)
       IN shorter \cup { Append(s, x) : s \in { t \in shorter : Len(t) = n - 1 }, x \in S }

RECURSIVE SumSeq(_)
SumSeq(s) == IF s = <<>> THEN 0 ELSE Head(s) + SumSeq(Tail(s))

Max(a, b) == IF a >= b THEN a ELSE b

RECURSIVE Flatten(_)
\* Array.prototype.flat over a sequence of sequences
Flatten(ss) == IF ss = <<>> THEN <<>> ELSE Head(ss) \o Flatten(Tail(ss))

(* ------------------------------------------------------------------ *)
(* The heap                                                            *)
(* ------------------------------------------------------------------ *)
RECURSIVE Val(_, _)
\* the tree value the reference a denotes in heap h
Val(h, a) ==
  LET c == h[a]
  IN [c EXCEPT !.hijos = [i \in 1..Len(c.hijos) |-> Val(h, c.hijos[i])]]

RECURSIVE Reach(_, _)
\* the references reachable from a
Reach(h, a) ==
  {a} \cup UNION { Reach(h, h[a].hijos[i]) : i \in 1..Len(h[a].hijos) }

RECURSIVE Alloc(_, _)
RECURSIVE AllocList(_, _, _)
\* allocate fresh objects for the tree value node: [heap, addr]
Alloc(h, node) ==
  LET a == Len(h) + 1
      h0 == Append(h, [node EXCEPT !.hijos = <<>>])
      r == AllocList(h0, node.hijos, <<>>)
  IN [heap |-> [r.heap EXCEPT ![a].hijos = r.addrs], addr |-> a]

AllocList(h, kids, acc) ==
  IF kids = <<>> THEN [heap |-> h, addrs |-> acc]
  ELSE LET \* the values the next iteration starts from, computed now
           next == CHOOSE v \in { LET r == Alloc(h, Head(kids))
                                 IN <<r.heap, Tail(kids), Append(acc, r.addr)>> } : TRUE
       IN AllocList(next[1], next[2], next[3])

(* ------------------------------------------------------------------ *)
(* buildTreeFromApi                                                    *)
(* ------------------------------------------------------------------ *)
\* sub.ejemplos.forEach: the example nodes of one subconcept
ejemploNodes(ejemplos, ci, si, color) ==
  [k \in 1..Len(ejemplos) |->
     [id |-> <<"ex", ToStr(ci), ToStr(si), ToStr(k - 1)>>,
      nombre |-> ejemplos[k],
      relacion |-> "ejemplo",
      tipo |-> "example",
      hijos |-> <<>>,
      color |-> color]]

\* the example items become children whatever the depth profile
subNodesWithExamples(subs, profundidad, ci, color) ==
  [j \in 1..Len(subs) |->
     [id |-> <<"sub", ToStr(ci), ToStr(j - 1)>>,
      nombre |-> subs[j].nombre,
      descripcion |-> Get(subs[j], "descripcion"),
      relacion |-> "incluye",
      tipo |-> "subconcept",
      hijos |-> IF Has(subs[j], "ejemplos")
                THEN ejemploNodes(subs[j].ejemplos, ci, j - 1, color)
                ELSE <<>>,
      color |-> color]]

\* concepto.subconceptos.forEach: the subconcept nodes of one concept
subNodes(subs, profundidad, ci, color) ==
  [j \in 1..Len(subs) |->
     [id |-> <<"sub", ToStr(ci), ToStr(j - 1)>>,
      nombre |-> subs[j].nombre,
      descripcion |-> Get(subs[j], "descripcion"),
      relacion |-> "incluye",
      tipo |-> "subconcept",
      hijos |-> IF profundidad = "avanzado" /\ Has(subs[j], "ejemplos")
                THEN ejemploNodes(subs[j].ejemplos, ci, j - 1, color)
                ELSE <<>>,
      color |-> color]]

\* BRANCH_COLORS[conceptIndex]: undefined past the end of the palette
branchColorNoWrap(ci) ==
  IF ci < Len(BRANCH_COLORS) THEN BRANCH_COLORS[ci + 1] ELSE Undefined

\* BRANCH_COLORS[conceptIndex % BRANCH_COLORS.length]
branchColor(ci) == BRANCH_COLORS[(ci % Len(BRANCH_COLORS)) + 1]

\* conceptos.forEach: the top-level branch at input index ci (0-based)
conceptNode(concepto, profundidad, ci) ==
  LET color == branchColor(ci)
  IN [id |-> <<"concept", ToStr(ci)>>,
      nombre |-> concepto.nombre,
      descripcion |-> Get(concepto, "descripcion"),
      relacion |-> IF Get(concepto, "relacion") \in {Undefined, ""}
                   THEN "tiene" ELSE concepto.relacion,
      tipo |-> "concept",
      hijos |-> IF profundidad # "basico" /\ Has(concepto, "subconceptos")
                THEN subNodes(concepto.subconceptos, profundidad, ci, color)
                ELSE <<>>,
      color |-> color]

\* the tree value buildTreeFromApi returns
buildTreeFromApi(tema, profundidad, conceptos) ==
  [tema |-> tema,
   profundidad |-> profundidad,
   raiz |-> [id |-> <<"main">>,
             nombre |-> tema,
             tipo |-> "main",
             hijos |-> [i \in 1..Len(conceptos) |->
                          conceptNode(conceptos[i], profundidad, i - 1)],
             color |-> ROOT_COLOR]]

(* ------------------------------------------------------------------ *)
(* layoutFromTree                                                      *)
(* ------------------------------------------------------------------ *)
RECURSIVE calcHeightNoGaps(_)
\* the reduce without the gaps between the children
calcHeightNoGaps(node) ==
  IF Len(node.hijos) = 0 THEN NODE_HEIGHT
  ELSE Max(NODE_HEIGHT,
           SumSeq([i \in 1..Len(node.hijos) |-> calcHeightNoGaps(node.hijos[i])]))

RECURSIVE calcHeight(_)
\* the vertical extent of a subtree, in pixels
calcHeight(node) ==
  IF Len(node.hijos) = 0 THEN NODE_HEIGHT
  ELSE LET childrenHeight ==
             SumSeq([i \in 1..Len(node.hijos) |-> calcHeight(node.hijos[i])])
             + (Len(node.hijos) - 1) * NODE_VERTICAL_GAP
       IN Max(NODE_HEIGHT, childrenHeight)

\* a stacking step that advances by one node box whatever the subtree
nextChildYFixed(childY, childHeight) ==
  childY + NODE_HEIGHT * YScale

\* childY += childHeight + NODE_VERTICAL_GAP
nextChildY(childY, childHeight) ==
  childY + (childHeight + NODE_VERTICAL_GAP) * YScale

\* branches stacked with no gap between them
nextBranchYNoGap(currentY, height) ==
  currentY + height * YScale

\* currentY += height + NODE_VERTICAL_GAP * BRANCH_GAP_MULTIPLIER
nextBranchY(currentY, height) ==
  currentY + height * YScale + BranchGapY

\* nodes and edges kept at module level and never reset: a call starts from
\* what the previous call left
emptyLayoutStale ==
  IF layoutCalls = <<>> THEN [nodes |-> <<>>, edges |-> <<>>]
  ELSE layoutCalls[Len(layoutCalls)].out

\* const nodes = []; const edges = [] of one call
emptyLayout == [nodes |-> <<>>, edges |-> <<>>]

\* the node pushed for a child in createNodesRecursive
childLayoutNode(child, x, childCenterY) ==
  [id |-> child.id,
   type |-> "concept",
   position |-> [x |-> x, y |-> childCenterY],
   data |-> [label |-> child.nombre,
             nodeType |-> IF child.tipo = "expanded" THEN "example" ELSE child.tipo,
             description |-> Get(child, "descripcion"),
             color |-> Get(child, "color")]]

\* the edge pushed for a child in createNodesRecursive
childLayoutEdge(parentId, child) ==
  [id |-> <<"edge">> \o parentId \o child.id,
   source |-> parentId,
   target |-> child.id,
   type |-> "smoothstep"]

\* the column one level too far to the right
levelXOffByOne(level) == START_X + (level + 1) * LEVEL_X_GAP

\* const x = START_X + level * LEVEL_X_GAP
levelX(level) == START_X + level * LEVEL_X_GAP

\* a child put at the top of its slot
childCenterYAtTop(childY, childHeight) == childY

\* const childCenterY = childY + childHeight / 2
childCenterY(childY, childHeight) == childY + (childHeight * YScale) \div 2

RECURSIVE createNodesRecursive(_, _, _, _, _, _)
RECURSIVE forEachChild(_, _, _, _, _, _)
\* node.hijos.forEach of createNodesRecursive, from child idx on
forEachChild(node, parentId, level, idx, childY, acc) ==
  IF idx > Len(node.hijos) THEN acc
  ELSE LET child == node.hijos[idx]
           x == levelX(level)
           childHeight == calcHeight(child)
           pushed == [nodes |-> Append(acc.nodes,
                                       childLayoutNode(child, x, childCenterY(childY, childHeight))),
                      edges |-> Append(acc.edges, childLayoutEdge(parentId, child))]
           below == createNodesRecursive(child, child.id, level + 1, childY,
                                         childHeight, pushed)
           \* the values the next iteration starts from, computed now
           next == CHOOSE v \in { <<idx + 1, nextChildY(childY, childHeight), below>> } : TRUE
       IN forEachChild(node, parentId, level, next[1], next[2], next[3])

\* places the children of node (and their subtrees); startY in quarter
\* pixels, availableHeight in pixels
createNodesRecursive(node, parentId, level, startY, availableHeight, acc) ==
  IF Len(node.hijos) = 0 THEN acc
  ELSE LET totalChildrenHeight ==
             SumSeq([i \in 1..Len(node.hijos) |-> calcHeight(node.hijos[i])])
             + (Len(node.hijos) - 1) * NODE_VERTICAL_GAP
           childY == startY + ((availableHeight - totalChildrenHeight) * YScale) \div 2
       IN forEachChild(node, parentId, level, 1, childY, acc)

RECURSIVE branchStartY(_, _)
\* currentY before branch idx is pushed (idx = Len + 1: after the loop)
branchStartY(branchHeights, idx) ==
  IF idx = 1 THEN 0
  ELSE nextBranchY(branchStartY(branchHeights, idx - 1), branchHeights[idx - 1])

\* branchYPositions
branchYPositions(branchHeights) ==
  [i \in 1..Len(branchHeights) |->
     [startY |-> branchStartY(branchHeights, i),
      centerY |-> branchStartY(branchHeights, i) + (branchHeights[i] * YScale) \div 2,
      height |-> branchHeights[i]]]

\* the centre of an extent that still counts the gap after the last branch
mapCenterYTrailingGap(branchHeights) ==
  branchStartY(branchHeights, Len(branchHeights) + 1) \div 2

\* mapCenterY = totalHeight / 2
mapCenterY(branchHeights) ==
  (branchStartY(branchHeights, Len(branchHeights) + 1) - BranchGapY) \div 2

\* the node pushed for the root
rootLayoutNode(raiz, y) ==
  [id |-> raiz.id,
   type |-> "concept",
   position |-> [x |-> START_X, y |-> y],
   data |-> [label |-> raiz.nombre,
             nodeType |-> "main",
             color |-> IF Get(raiz, "color") \in {Undefined, ""}
                       THEN ROOT_COLOR ELSE raiz.color]]

\* the node pushed for a top-level branch
branchLayoutNode(conceptNodeV, centerY) ==
  [id |-> conceptNodeV.id,
   type |-> "concept",
   position |-> [x |-> START_X + LEVEL_X_GAP, y |-> centerY],
   data |-> [label |-> conceptNodeV.nombre,
             nodeType |-> "concept",
             description |-> Get(conceptNodeV, "descripcion"),
             color |-> Get(conceptNodeV, "color")]]

\* the edge pushed from the root to a top-level branch
branchLayoutEdge(raiz, conceptNodeV) ==
  [id |-> <<"edge", "main">> \o conceptNodeV.id,
   source |-> raiz.id,
   target |-> conceptNodeV.id,
   type |-> "smoothstep"]

RECURSIVE forEachBranch(_, _, _, _)
\* tree.raiz.hijos.forEach of layoutFromTree, from branch idx on
forEachBranch(raiz, positions, idx, acc) ==
  IF idx > Len(raiz.hijos) THEN acc
  ELSE LET conceptNodeV == raiz.hijos[idx]
           branchPos == positions[idx]
           pushed == [nodes |-> Append(acc.nodes, branchLayoutNode(conceptNodeV, branchPos.centerY)),
                      edges |-> Append(acc.edges, branchLayoutEdge(raiz, conceptNodeV))]
           below == createNodesRecursive(conceptNodeV, conceptNodeV.id, 2,
                                         branchPos.startY, branchPos.height, pushed)
           \* the values the next iteration starts from, computed now
           next == CHOOSE v \in { <<idx + 1, below>> } : TRUE
       IN forEachBranch(raiz, positions, next[1], next[2])

\* {nodes, edges} for a tree value; position.y in quarter pixels
layoutFromTree(tree) ==
  LET branchHeights == [i \in 1..Len(tree.raiz.hijos) |-> calcHeight(tree.raiz.hijos[i])]
      positions == branchYPositions(branchHeights)
      start == [nodes |-> Append(emptyLayout.nodes,
                                 rootLayoutNode(tree.raiz, mapCenterY(branchHeights))),
                edges |-> emptyLayout.edges]
  IN forEachBranch(tree.raiz, positions, 1, start)

(* ------------------------------------------------------------------ *)
(* addExpansionsToTree                                                 *)
(* ------------------------------------------------------------------ *)
RECURSIVE stringifyReversed(_)
\* a copy that walks the children from a stack, last child first
stringifyReversed(node) ==
  LET kept == { k \in DOMAIN node : k \in {"id", "hijos"} \/ node[k] # Undefined }
  IN [k \in kept |->
        IF k = "hijos"
        THEN [i \in 1..Len(node.hijos) |->
                stringifyReversed(node.hijos[Len(node.hijos) + 1 - i])]
        ELSE node[k]]

RECURSIVE stringify(_)
\* JSON.stringify of a node value: a property whose value is undefined is
\* left out, the rest is kept, hijos in order
stringify(node) ==
  LET kept == { k \in DOMAIN node : k \in {"id", "hijos"} \/ node[k] # Undefined }
  IN [k \in kept |->
        IF k = "hijos"
        THEN [i \in 1..Len(node.hijos) |-> stringify(node.hijos[i])]
        ELSE node[k]]

\* no copy at all: the returned tree is the argument
jsonCloneAlias(h, tree) == [heap |-> h, tree |-> tree]

\* JSON.parse(JSON.stringify(tree)): fresh objects for the whole tree,
\* [heap, tree]
jsonClone(h, tree) ==
  LET r == Alloc(h, stringify(Val(h, tree.raiz)))
  IN [heap |-> r.heap,
      tree |-> [tema |-> tree.tema, profundidad |-> tree.profundidad, raiz |-> r.addr]]

RECURSIVE findLastByName(_, _, _)
RECURSIVE findLastInChildren(_, _, _, _)
\* a search that visits the children before the node, last child first
findLastByName(h, a, nombre) ==
  LET found == findLastInChildren(h, h[a].hijos, Len(h[a].hijos), nombre)
  IN IF found # Null THEN found
     ELSE IF h[a].nombre = nombre THEN a ELSE Null

findLastInChildren(h, hijos, idx, nombre) ==
  IF idx < 1 THEN Null
  ELSE LET found == findLastByName(h, hijos[idx], nombre)
       IN IF found # Null THEN found
          ELSE findLastInChildren(h, hijos, idx - 1, nombre)

RECURSIVE findNodeByName(_, _, _)
RECURSIVE findInChildren(_, _, _, _)
\* the first node named nombre in pre-order from a, or Null
findNodeByName(h, a, nombre) ==
  IF h[a].nombre = nombre THEN a
  ELSE findInChildren(h, h[a].hijos, 1, nombre)

\* for (const child of node.hijos), from child idx on
findInChildren(h, hijos, idx, nombre) ==
  IF idx > Len(hijos) THEN Null
  ELSE LET found == findNodeByName(h, hijos[idx], nombre)
       IN IF found # Null THEN found
          ELSE findInChildren(h, hijos, idx + 1, nombre)

\* the object pushed for one detalle
expandedNode(parent, detalle, expIdx, idx, now) ==
  [id |-> <<"expanded">> \o parent.id \o <<ToStr(expIdx), ToStr(idx), ToStr(now)>>,
   nombre |-> detalle.nombre,
   descripcion |-> Get(detalle, "descripcion"),
   relacion |-> "incluye",
   tipo |-> "expanded",
   hijos |-> <<>>,
   color |-> Get(parent, "color")]

\* unshift instead of push: the new object goes before the existing children
pushChildFront(h, p, obj) ==
  LET a == Len(h) + 1
  IN [Append(h, obj) EXCEPT ![p].hijos = <<a>> \o @]

\* parentNode.hijos.push(obj): a fresh object, appended to the parent's hijos
pushChild(h, p, obj) ==
  LET a == Len(h) + 1
  IN [Append(h, obj) EXCEPT ![p].hijos = Append(@, a)]

RECURSIVE forEachDetalle(_, _, _, _, _, _)
\* expansion.subDetalles.forEach, from detalle idx (1-based) on
forEachDetalle(h, p, subDetalles, expIdx, idx, now) ==
  IF idx > Len(subDetalles) THEN h
  ELSE forEachDetalle(
         pushChild(h, p, expandedNode(h[p], subDetalles[idx], expIdx, idx - 1, now)),
         p, subDetalles, expIdx, idx + 1, now)

RECURSIVE forEachExpansionStrict(_, _, _, _, _)
\* no null check on parentNode: an entry that matches nothing raises
forEachExpansionStrict(h, raiz, expansions, idx, now) ==
  IF idx > Len(expansions) THEN [heap |-> h, threw |-> FALSE]
  ELSE LET expansion == expansions[idx]
           parentNode == findNodeByName(h, raiz, expansion.conceptoOriginal)
       IN IF parentNode = Null \/ ~Has(expansion, "subDetalles")
          THEN [heap |-> h, threw |-> TRUE]
          ELSE forEachExpansionStrict(
                 forEachDetalle(h, parentNode, expansion.subDetalles, idx - 1, 1, now),
                 raiz, expansions, idx + 1, now)

RECURSIVE forEachExpansion(_, _, _, _, _)
\* expansions.forEach, from entry idx (1-based) on: [heap, threw]; an entry
\* that matches a node and has no subDetalles raises a TypeError
forEachExpansion(h, raiz, expansions, idx, now) ==
  IF idx > Len(expansions) THEN [heap |-> h, threw |-> FALSE]
  ELSE LET expansion == expansions[idx]
           parentNode == findNodeByName(h, raiz, expansion.conceptoOriginal)
       IN IF parentNode = Null
          THEN forEachExpansion(h, raiz, expansions, idx + 1, now)
          ELSE IF ~Has(expansion, "subDetalles")
          THEN [heap |-> h, threw |-> TRUE]
          ELSE forEachExpansion(
                 forEachDetalle(h, parentNode, expansion.subDetalles, idx - 1, 1, now),
                 raiz, expansions, idx + 1, now)

\* addExpansionsToTree on the heap, with Date.now() = now throughout:
\* [heap, tree, threw]
addExpansionsToTree(h, tree, expansions, now) ==
  LET cloned == jsonClone(h, tree)
      r == forEachExpansion(cloned.heap, cloned.tree.raiz, expansions, 1, now)
  IN [heap |-> r.heap, tree |-> cloned.tree, threw |-> r.threw]

\* the tree value a tree reference denotes
TreeVal(h, tree) ==
  [tema |-> tree.tema, profundidad |-> tree.profundidad, raiz |-> Val(h, tree.raiz)]

(* ------------------------------------------------------------------ *)
(* Inputs of the tree functions                                        *)
(* ------------------------------------------------------------------ *)
\* the subconceptos of the payloads: one with a description and an example
\* item, one with neither
SubA == [nombre |-> "A", descripcion |-> "dA", ejemplos |-> <<"E">>]

SubB == [nombre |-> "B"]

\* the conceptos of the payloads: names repeat across levels (and may equal
\* the topic), optional properties are present in one and absent in others
ConceptPool ==
  { [nombre |-> "A", descripcion |-> "dA", relacion |-> "produce",
     subconceptos |-> <<SubA, SubB>>],
    [nombre |-> "B", subconceptos |-> <<SubB>>],
    [nombre |-> "B"] }

ApiPayloads ==
  [tema : {"A", "T"},
   profundidad : {"basico", "intermedio", "avanzado"},
   conceptos : SeqsUpTo(ConceptPool, MaxConceptos)]

\* e1 matches "A" with two details (one of them named like a target),
\* e2 matches "B", e3 names no node of any tree
EntryPool ==
  { [conceptoOriginal |-> "A",
     subDetalles |-> << [nombre |-> "B", descripcion |-> "x"], [nombre |-> "C"] >>],
    [conceptoOriginal |-> "B",
     subDetalles |-> << [nombre |-> "C", descripcion |-> "y"] >>],
    [conceptoOriginal |-> "Z",
     subDetalles |-> << [nombre |-> "C", descripcion |-> "y"] >>] }

ExpansionLists == SeqsUpTo(EntryPool, MaxEntries)

NoTree == [tema |-> "", profundidad |-> "", raiz |-> Null]

(* ------------------------------------------------------------------ *)
(* Home: state and helpers                                             *)
(* ------------------------------------------------------------------ *)
\* null, for the object-valued state (conceptTree, currentConfig)
NullObj == [null |-> TRUE]

\* null, for the string-valued state (error)
NoError == "<null>"

\* the useState initial values
HomeStart ==
  /\ pending = <<>>
  /\ requests = 0
  /\ nodes = <<>>
  /\ edges = <<>>
  /\ isLoading = FALSE
  /\ isExpanding = FALSE
  /\ error = NoError
  /\ hasGenerated = FALSE
  /\ currentConfig = NullObj
  /\ expansionCount = 0
  /\ conceptTree = NullObj

(* ------------------------------------------------------------------ *)
(* The tree functions as a state machine                               *)
(* ------------------------------------------------------------------ *)
\* nothing has been called yet
TreeStart ==
  /\ heap = <<>>
  /\ treeRef = NoTree
  /\ inputRef = NoTree
  /\ inputBefore = NoTree
  /\ lastExp = <<>>
  /\ lastNow = 0
  /\ lastThrew = FALSE
  /\ clock = 0
  /\ calls = 0
  /\ layoutCalls = <<>>
  /\ HomeStart

TreeInit == api \in ApiPayloads /\ TreeStart

\* tree = buildTreeFromApi(tema, profundidad, conceptos)
BuildTree ==
  /\ treeRef = NoTree
  /\ LET built == buildTreeFromApi(api.tema, api.profundidad, api.conceptos)
         r == Alloc(heap, built.raiz)
     IN /\ heap' = r.heap
        /\ treeRef' = [tema |-> built.tema, profundidad |-> built.profundidad,
                    raiz |-> r.addr]
  /\ UNCHANGED <<api, inputRef, inputBefore, lastExp, lastNow, lastThrew, clock, calls,
                 layoutCalls>>
  /\ UNCHANGED homeVars

\* tree = addExpansionsToTree(tree, expansions)
ExpandTree ==
  /\ treeRef # NoTree
  /\ calls < MaxExpandCalls
  /\ \E expansions \in ExpansionLists, now \in clock..MaxNow :
       LET r == addExpansionsToTree(heap, treeRef, expansions, now)
       IN /\ heap' = r.heap
          /\ treeRef' = IF r.threw THEN treeRef ELSE r.tree
          /\ inputRef' = treeRef
          /\ inputBefore' = TreeVal(heap, treeRef)
          /\ lastExp' = expansions
          /\ lastNow' = now
          /\ lastThrew' = r.threw
          /\ clock' = now
  /\ calls' = calls + 1
  /\ UNCHANGED <<api, layoutCalls>>
  /\ UNCHANGED homeVars

TreeNext == BuildTree \/ ExpandTree

SpecTree == TreeInit /\ [][TreeNext]_vars

(* ------------------------------------------------------------------ *)
(* Reading a tree and its layout side by side                          *)
(* ------------------------------------------------------------------ *)
RECURSIVE Size(_)
\* number of nodes of a subtree
Size(node) == 1 + SumSeq([i \in 1..Len(node.hijos) |-> Size(node.hijos[i])])

\* layoutFromTree pushes nodes in pre-order: the index in nodes of child i
\* of the node pushed at index idx
ChildIndex(node, idx, i) ==
  idx + 1 + SumSeq([k \in 1..(i - 1) |-> Size(node.hijos[k])])

\* half of calcHeight, in quarter pixels
HalfExtentY(node) == (calcHeight(node) * YScale) \div 2

\* the current tree as a value, and its layout
CurrentTree == TreeVal(heap, treeRef)

CurrentLayout == layoutFromTree(CurrentTree)

RECURSIVE SiblingsApart(_, _, _)
\* below the node pushed at index idx, every pair of siblings has disjoint
\* intervals [y - calcHeight/2, y + calcHeight/2]
SiblingsApart(node, idx, placed) ==
  /\ \A i \in 1..Len(node.hijos) :
       /\ ChildIndex(node, idx, i) <= Len(placed)
       /\ placed[ChildIndex(node, idx, i)].id = node.hijos[i].id
       /\ SiblingsApart(node.hijos[i], ChildIndex(node, idx, i), placed)
  /\ \A i, j \in 1..Len(node.hijos) :
       i < j =>
         placed[ChildIndex(node, idx, i)].position.y + HalfExtentY(node.hijos[i])
           < placed[ChildIndex(node, idx, j)].position.y - HalfExtentY(node.hijos[j])

\* C1: in the layout of every tree built by buildTreeFromApi and grown by
\* addExpansionsToTree calls, the vertical intervals
\* [y - calcHeight/2, y + calcHeight/2] of any two siblings (the root's
\* branches included) are disjoint.
C1_SiblingsDoNotOverlap ==
  treeRef # NoTree => SiblingsApart(CurrentTree.raiz, 1, CurrentLayout.nodes)

RECURSIVE HasNestedSiblings(_)
\* some node has two children of which one has children itself
HasNestedSiblings(node) ==
  \/ /\ Len(node.hijos) >= 2
     /\ \E i \in 1..Len(node.hijos) : Len(node.hijos[i].hijos) >= 2
  \/ \E i \in 1..Len(node.hijos) : HasNestedSiblings(node.hijos[i])

\* an expanded tree with two top-level branches, and siblings below the top
\* level one of which carries at least two children of its own
C1_Witness ==
  /\ treeRef # NoTree
  /\ calls >= 1
  /\ Len(CurrentTree.raiz.hijos) >= 2
  /\ \E i \in 1..Len(CurrentTree.raiz.hijos) :
       HasNestedSiblings(CurrentTree.raiz.hijos[i])

(* ------------------------------------------------------------------ *)
(* Reading the result of addExpansionsToTree against its argument      *)
(* ------------------------------------------------------------------ *)
\* the number a token `${n}` stands for
StrToNum(str) == CHOOSE n \in 0..(Len(NumStr) - 1) : ToStr(n) = str

\* what the claims call the structure of a node: id, name, kind, color
Attrs(node) ==
  [id |-> node.id, nombre |-> node.nombre, tipo |-> node.tipo,
   color |-> Get(node, "color")]

RECURSIVE Structure(_)
\* a tree value reduced to id, name, kind, color and children order
Structure(node) ==
  [attrs |-> Attrs(node),
   hijos |-> [i \in 1..Len(node.hijos) |-> Structure(node.hijos[i])]]

RECURSIVE NamesOf(_)
NamesOf(node) ==
  {node.nombre} \cup UNION { NamesOf(node.hijos[i]) : i \in 1..Len(node.hijos) }

RECURSIVE Persist(_, _)
\* every node of the argument is in the result at the same place with the
\* same attributes, its children first and in the same order
Persist(after, before) ==
  /\ Attrs(after) = Attrs(before)
  /\ Len(before.hijos) <= Len(after.hijos)
  /\ \A i \in 1..Len(before.hijos) : Persist(after.hijos[i], before.hijos[i])

RECURSIVE Walk(_, _, _, _)
\* the nodes of the result in pre-order, each with its path from the root
\* and whether the argument has a node at that path (old)
Walk(after, before, old, path) ==
  << [path |-> path,
      id |-> after.id,
      nombre |-> after.nombre,
      tipo |-> after.tipo,
      color |-> Get(after, "color"),
      descripcion |-> Get(after, "descripcion"),
      nkids |-> Len(after.hijos),
      old |-> old] >>
  \o Flatten([k \in 1..Len(after.hijos) |->
                IF old /\ k <= Len(before.hijos)
                THEN Walk(after.hijos[k], before.hijos[k], TRUE, Append(path, k))
                ELSE Walk(after.hijos[k], after.hijos[k], FALSE, Append(path, k))])

\* the nodes of the tree returned by the last call, read against its argument
Result == Walk(CurrentTree.raiz, inputBefore.raiz, TRUE, <<>>)

IsNew(S, n) == ~S[n].old

\* the 0-based index of the entry that created a new node (from its id:
\* expanded-<parent id>-<expIdx>-<idx>-<now>); -1 for a node of the argument
Born(S, n) == IF S[n].old THEN -1 ELSE StrToNum(S[n].id[Len(S[n].id) - 2])

DetailIdx(S, n) == StrToNum(S[n].id[Len(S[n].id) - 1])

\* the index of the parent of a non-root node
ParentOf(S, n) ==
  CHOOSE m \in 1..Len(S) : S[m].path = SubSeq(S[n].path, 1, Len(S[n].path) - 1)

\* the new nodes created by entry k (1-based), in pre-order
KidsOf(S, k) == SelectSeq([n \in 1..Len(S) |-> n], LAMBDA n : IsNew(S, n) /\ Born(S, n) = k - 1)

RECURSIVE Matched(_, _, _)
\* entry k names a node that exists when the entry is processed: a node of
\* the argument, or a detail added by an earlier entry that matched
Matched(before, expansions, k) ==
  \/ expansions[k].conceptoOriginal \in NamesOf(before)
  \/ \E j \in 1..(k - 1) :
       /\ Matched(before, expansions, j)
       /\ \E d \in 1..Len(expansions[j].subDetalles) :
            expansions[j].subDetalles[d].nombre = expansions[k].conceptoOriginal

\* a call has been made and returned
Returned == calls >= 1 /\ ~lastThrew

(* ------------------------------------------------------------------ *)
(* addExpansionsToTree: claims                                         *)
(* ------------------------------------------------------------------ *)
\* C5: after addExpansionsToTree the argument denotes the same tree as
\* before the call (same nodes, attributes and children order), and no
\* object of the returned tree is an object of the argument.
C5_ArgumentUnchanged ==
  /\ calls >= 1 => TreeVal(heap, inputRef) = inputBefore
  /\ Returned => Reach(heap, inputRef.raiz) \cap Reach(heap, treeRef.raiz) = {}

\* a call that added nodes to its result
C5_Witness ==
  /\ Returned
  /\ lastExp # <<>>
  /\ Size(CurrentTree.raiz) > Size(inputBefore.raiz)

\* C6: every node of the argument is in the result, unchanged and with its
\* children first; every other node is of kind 'expanded' with its
\* parent's color and was childless when appended; an entry that matches
\* contributes exactly one child per subDetalle under one node, in input
\* order, with the detail's name and description; an entry that does not
\* match contributes nothing.
C6_ExpansionAppendsDetails ==
  Returned =>
    LET S == Result
    IN /\ Persist(CurrentTree.raiz, inputBefore.raiz)
       /\ \A n \in 1..Len(S) :
            IsNew(S, n) =>
              /\ S[n].tipo = "expanded"
              /\ S[n].color = S[ParentOf(S, n)].color
              /\ Born(S, n) \in 0..(Len(lastExp) - 1)
              /\ Born(S, ParentOf(S, n)) < Born(S, n)
              /\ \A m \in 1..Len(S) :
                   (/\ m < n
                    /\ IsNew(S, m)
                    /\ ParentOf(S, m) = ParentOf(S, n)) => Born(S, m) <= Born(S, n)
       /\ \A k \in 1..Len(lastExp) :
            LET kids == KidsOf(S, k)
                details == lastExp[k].subDetalles
            IN IF Matched(inputBefore.raiz, lastExp, k)
               THEN /\ Len(kids) = Len(details)
                    /\ \A i \in 1..Len(kids) :
                         /\ ParentOf(S, kids[i]) = ParentOf(S, kids[1])
                         /\ DetailIdx(S, kids[i]) = i - 1
                         /\ S[kids[i]].nombre = details[i].nombre
                         /\ S[kids[i]].descripcion = Get(details[i], "descripcion")
               ELSE kids = <<>>

\* a matching entry with two details applied to a node that had children
C6_Witness ==
  /\ Returned
  /\ \E k \in 1..Len(lastExp) :
       /\ Len(KidsOf(Result, k)) = 2
       /\ Head(Result[KidsOf(Result, k)[1]].path) > 1
       /\ Result[KidsOf(Result, k)[1]].path[Len(Result[KidsOf(Result, k)[1]].path)] > 1

\* C7: the children of an entry all go under the first node, in pre-order
\* from the root, that carries the entry's conceptoOriginal among the nodes
\* present when the entry is processed.
C7_FirstMatchInPreOrder ==
  Returned =>
    LET S == Result
    IN \A k \in 1..Len(lastExp) :
         LET kids == KidsOf(S, k)
         IN kids # <<>> =>
              LET p == ParentOf(S, kids[1])
              IN /\ \A i \in 1..Len(kids) : ParentOf(S, kids[i]) = p
                 /\ S[p].nombre = lastExp[k].conceptoOriginal
                 /\ Born(S, p) < k - 1
                 /\ \A q \in 1..(p - 1) :
                      Born(S, q) < k - 1 => S[q].nombre # lastExp[k].conceptoOriginal

\* an entry was applied while a second node of that name existed further on
C7_Witness ==
  /\ Returned
  /\ \E k \in 1..Len(lastExp) :
       /\ KidsOf(Result, k) # <<>>
       /\ \E q \in 1..Len(Result) :
            /\ q > ParentOf(Result, KidsOf(Result, k)[1])
            /\ Born(Result, q) < k - 1
            /\ Result[q].nombre = lastExp[k].conceptoOriginal

\* C8: an entry that matches no node raises nothing; when no entry matches
\* the result has the structure of the argument; entries that match are
\* applied whatever the other entries of the call.
C8_MissingTargetSkipped ==
  calls >= 1 =>
    /\ ~lastThrew
    /\ (\A k \in 1..Len(lastExp) : ~Matched(inputBefore.raiz, lastExp, k))
         => Structure(CurrentTree.raiz) = Structure(inputBefore.raiz)
    /\ \A k \in 1..Len(lastExp) :
         Matched(inputBefore.raiz, lastExp, k)
           => Len(KidsOf(Result, k)) = Len(lastExp[k].subDetalles)

\* an entry that matches nothing came before an entry that was applied
C8_Witness ==
  /\ Returned
  /\ \E j, k \in 1..Len(lastExp) :
       /\ j < k
       /\ ~Matched(inputBefore.raiz, lastExp, j)
       /\ KidsOf(Result, k) # <<>>

\* id and position of every placed node, in order
Positions(layout) ==
  [i \in 1..Len(layout.nodes) |->
     [id |-> layout.nodes[i].id, position |-> layout.nodes[i].position]]

\* C9: addExpansionsToTree(t, []) has the structure of t, and its layout has
\* the node positions and the edges of the layout of t.
C9_EmptyExpansionIsIdentity ==
  (calls >= 1 /\ lastExp = <<>>) =>
    /\ ~lastThrew
    /\ CurrentTree.tema = inputBefore.tema
    /\ CurrentTree.profundidad = inputBefore.profundidad
    /\ Structure(CurrentTree.raiz) = Structure(inputBefore.raiz)
    /\ Positions(layoutFromTree(CurrentTree)) = Positions(layoutFromTree(inputBefore))
    /\ layoutFromTree(CurrentTree).edges = layoutFromTree(inputBefore).edges

\* an empty expansion of a tree with nested siblings whose copy is not the
\* same value (the copy dropped a property that was undefined)
C9_Witness ==
  /\ Returned
  /\ lastExp = <<>>
  /\ HasNestedSiblings(CurrentTree.raiz)
  /\ CurrentTree # inputBefore

(* ------------------------------------------------------------------ *)
(* Home: the collaborators' answers                                    *)
(* ------------------------------------------------------------------ *)
\* what the form can submit: handleSubmit passes tema.trim(), nivel and
\* grado, and no profundidad
FormConfigs ==
  { [tema |-> t, nivel |-> "primaria", grado |-> "1"] : t \in {"A", "T"} }

\* the conceptos /api/generate may answer with
GenConceptos ==
  { << [nombre |-> "A", descripcion |-> "dA", relacion |-> "produce",
        subconceptos |-> <<SubA, SubB>>],
       [nombre |-> "B"] >>,
    << [nombre |-> "A", subconceptos |-> <<SubA, SubB>>],
       [nombre |-> "B"],
       [nombre |-> "C", subconceptos |-> <<[nombre |-> "D"], SubA, SubB>>],
       [nombre |-> "C", subconceptos |-> <<[nombre |-> "D"], SubA, SubB>>] >>,
    <<>> }

\* the JSON bodies of /api/generate: an error, a body without conceptos,
\* or conceptos; a rejected fetch and an unparsable body end in the same
\* catch block as the error body
GenResults ==
  { [success |-> FALSE, error |-> "boom"], [success |-> TRUE] }
  \cup { [success |-> TRUE, conceptos |-> c] : c \in GenConceptos }

\* the answer that expands each requested name with one detail
HonestExpansiones(nodosAExpandir) ==
  [i \in 1..Len(nodosAExpandir) |->
     [conceptoOriginal |-> nodosAExpandir[i],
      subDetalles |-> << [nombre |-> "C", descripcion |-> "y"] >>]]

\* the JSON bodies of /api/expand for a request
ExpResults(nodosAExpandir) ==
  { [success |-> FALSE, error |-> "boom"],
    [success |-> TRUE, expansiones |-> HonestExpansiones(nodosAExpandir)],
    [success |-> TRUE,
     expansiones |-> << [conceptoOriginal |-> "Z",
                         subDetalles |-> << [nombre |-> "C", descripcion |-> "y"] >>] >>],
    \* a body without the expansiones list
    [success |-> TRUE],
    \* the honest entries followed by an entry for the first requested
    \* name that carries no subDetalles
    [success |-> TRUE,
     expansiones |-> HonestExpansiones(nodosAExpandir)
                     \o << [conceptoOriginal |-> nodosAExpandir[1]] >>] }

(* ------------------------------------------------------------------ *)
(* generateConceptMap                                                  *)
(* ------------------------------------------------------------------ *)
\* what generateConceptMap(config) resolves to when the fetch answers result
generateConceptMap(config, result) ==
  IF ~result.success
  THEN [success |-> FALSE,
        error |-> IF Get(result, "error") \in {Undefined, ""}
                  THEN "Error al generar el mapa" ELSE result.error]
  ELSE IF ~Has(result, "conceptos")
  THEN [success |-> FALSE, error |-> "TypeError"]
  ELSE LET built == buildTreeFromApi(
                      config.tema,
                      IF Has(config, "profundidad") THEN config.profundidad
                      ELSE "intermedio",
                      result.conceptos)
       IN [success |-> TRUE, data |-> layoutFromTree(built), tree |-> built]

(* ------------------------------------------------------------------ *)
(* Home: handlers                                                      *)
(* ------------------------------------------------------------------ *)
RemoveAt(seq, i) == SubSeq(seq, 1, i - 1) \o SubSeq(seq, i + 1, Len(seq))

\* tree, placements as the session holds them
Session == [conceptTree |-> conceptTree, nodes |-> nodes, edges |-> edges]

\* canExpand
canExpand ==
  hasGenerated /\ expansionCount < MAX_EXPANSIONS /\ ~isLoading /\ ~isExpanding

RECURSIVE findLeafNodes(_)
\* the childless nodes other than the root, in pre-order
findLeafNodes(node) ==
  IF Len(node.hijos) = 0 /\ node.tipo # "main" THEN <<node>>
  ELSE Flatten([i \in 1..Len(node.hijos) |-> findLeafNodes(node.hijos[i])])

\* no filter on the kind of the leaves
nodosAExpandirAnyLeaf(tree) ==
  LET allLeaves == findLeafNodes(tree.raiz)
      first == SubSeq(allLeaves, 1,
                      IF Len(allLeaves) < MAX_TARGETS
                      THEN Len(allLeaves) ELSE MAX_TARGETS)
  IN [i \in 1..Len(first) |-> first[i].nombre]

\* nodosAExpandir: the names of the first MAX_TARGETS expandable leaves
nodosAExpandir(tree) ==
  LET allLeaves == findLeafNodes(tree.raiz)
      expandableLeaves ==
        SelectSeq(allLeaves, LAMBDA leaf : leaf.tipo \in {"concept", "subconcept"})
      first == SubSeq(expandableLeaves, 1,
                      IF Len(expandableLeaves) < MAX_TARGETS
                      THEN Len(expandableLeaves) ELSE MAX_TARGETS)
  IN [i \in 1..Len(first) |-> first[i].nombre]

\* addExpansionsToTree(conceptTree, expansiones) for the tree object the
\* session holds: [threw, tree]
expandTree(tree, expansions, now) ==
  LET loaded == Alloc(<<>>, tree.raiz)
      r == addExpansionsToTree(
             loaded.heap,
             [tema |-> tree.tema, profundidad |-> tree.profundidad, raiz |-> loaded.addr],
             expansions, now)
  IN [threw |-> r.threw, tree |-> TreeVal(r.heap, r.tree)]

\* handleGenerate(config) up to its await
handleGenerate(config) ==
  /\ requests < MaxRequests
  /\ isLoading' = TRUE
  /\ error' = NoError
  /\ currentConfig' = config
  /\ expansionCount' = 0
  /\ conceptTree' = NullObj
  /\ pending' = Append(pending, [kind |-> "generate", config |-> config,
                                 before |-> Session])
  /\ requests' = requests + 1
  /\ UNCHANGED <<nodes, edges, isExpanding, hasGenerated, clock>>
  /\ UNCHANGED treeVars

\* the form's submit button (disabled while isLoading)
Submit ==
  /\ ~isLoading
  /\ \E config \in FormConfigs : handleGenerate(config)

\* the Regenerar button (shown once hasGenerated, disabled while isLoading
\* or isExpanding); handleRegenerate does nothing without a currentConfig
Regenerate ==
  /\ hasGenerated
  /\ ~isLoading /\ ~isExpanding
  /\ currentConfig # NullObj
  /\ handleGenerate(currentConfig)

\* handleGenerate after its await: the call answered with a map
GenerateSucceeds(i) ==
  /\ pending[i].kind = "generate"
  /\ \E result \in GenResults :
       LET response == generateConceptMap(pending[i].config, result)
       IN /\ response.success
          /\ nodes' = response.data.nodes
          /\ edges' = response.data.edges
          /\ hasGenerated' = TRUE
          /\ conceptTree' = response.tree
  /\ isLoading' = FALSE
  /\ pending' = RemoveAt(pending, i)
  /\ UNCHANGED <<isExpanding, error, currentConfig, expansionCount, requests, clock>>
  /\ UNCHANGED treeVars

\* the failure path without the finally block
GenerateFailsNoFinally(i) ==
  /\ pending[i].kind = "generate"
  /\ \E result \in GenResults :
       \* the bodies that take generateConceptMap to its catch block
       /\ ~result.success \/ ~Has(result, "conceptos")
       /\ LET response == generateConceptMap(pending[i].config, result)
          IN /\ ~response.success
             /\ error' = IF Get(response, "error") \in {Undefined, ""}
                         THEN "Error desconocido al generar el mapa"
                         ELSE response.error
  /\ pending' = RemoveAt(pending, i)
  /\ UNCHANGED <<nodes, edges, isLoading, isExpanding, hasGenerated, currentConfig,
                 expansionCount, conceptTree, requests, clock>>
  /\ UNCHANGED treeVars

\* handleGenerate after its await: the call failed
GenerateFails(i) ==
  /\ pending[i].kind = "generate"
  /\ \E result \in GenResults :
       \* the bodies that take generateConceptMap to its catch block
       /\ ~result.success \/ ~Has(result, "conceptos")
       /\ LET response == generateConceptMap(pending[i].config, result)
          IN /\ ~response.success
             /\ error' = IF Get(response, "error") \in {Undefined, ""}
                         THEN "Error desconocido al generar el mapa"
                         ELSE response.error
  /\ isLoading' = FALSE
  /\ pending' = RemoveAt(pending, i)
  /\ UNCHANGED <<nodes, edges, isExpanding, hasGenerated, currentConfig,
                 expansionCount, conceptTree, requests, clock>>
  /\ UNCHANGED treeVars

\* neither the button nor the guard looks at expansionCount
ExpandPressedNoBudget ==
  /\ hasGenerated /\ ~isLoading /\ ~isExpanding
  /\ currentConfig # NullObj
  /\ conceptTree # NullObj

\* the Ampliar button can be pressed and handleExpand passes its first guard
ExpandPressed ==
  /\ canExpand
  /\ currentConfig # NullObj
  /\ conceptTree # NullObj
  /\ expansionCount < MAX_EXPANSIONS

\* the early return without its setIsExpanding(false)
ExpandNoLeavesStuck ==
  /\ ExpandPressed
  /\ nodosAExpandir(conceptTree) = <<>>
  /\ error' = "No hay mas conceptos para expandir"
  /\ isExpanding' = TRUE
  /\ UNCHANGED <<pending, requests, nodes, edges, isLoading, hasGenerated,
                 currentConfig, expansionCount, conceptTree, clock>>
  /\ UNCHANGED treeVars

\* handleExpand when no leaf is expandable
ExpandNoLeaves ==
  /\ ExpandPressed
  /\ nodosAExpandir(conceptTree) = <<>>
  /\ error' = "No hay mas conceptos para expandir"
  /\ isExpanding' = FALSE
  /\ UNCHANGED <<pending, requests, nodes, edges, isLoading, hasGenerated,
                 currentConfig, expansionCount, conceptTree, clock>>
  /\ UNCHANGED treeVars

\* handleExpand up to its await
ExpandRequest ==
  /\ ExpandPressed
  /\ nodosAExpandir(conceptTree) # <<>>
  /\ requests < MaxRequests
  /\ isExpanding' = TRUE
  /\ error' = NoError
  /\ pending' = Append(pending, [kind |-> "expand",
                                 conceptTree |-> conceptTree,
                                 nodosAExpandir |-> nodosAExpandir(conceptTree),
                                 before |-> Session])
  /\ requests' = requests + 1
  /\ UNCHANGED <<nodes, edges, isLoading, hasGenerated, currentConfig,
                 expansionCount, conceptTree, clock>>
  /\ UNCHANGED treeVars

\* the placements computed from the tree as it was before the expansions
ExpandSucceedsStaleLayout(i) ==
  /\ pending[i].kind = "expand"
  /\ \E result \in ExpResults(pending[i].nodosAExpandir), now \in clock..MaxNow :
       /\ result.success
       /\ Has(result, "expansiones")
       /\ LET updated == expandTree(pending[i].conceptTree, result.expansiones, now)
              layout == layoutFromTree(pending[i].conceptTree)
          IN /\ ~updated.threw
             /\ conceptTree' = updated.tree
             /\ nodes' = layout.nodes
             /\ edges' = layout.edges
       /\ clock' = now
  /\ expansionCount' = expansionCount + 1
  /\ isExpanding' = FALSE
  /\ pending' = RemoveAt(pending, i)
  /\ lastThrew' = FALSE
  /\ UNCHANGED <<isLoading, error, hasGenerated, currentConfig, requests>>
  /\ UNCHANGED <<api, heap, treeRef, inputRef, inputBefore, lastExp, lastNow,
                 calls, layoutCalls>>

\* handleExpand after its await: the expansions were applied to the tree
\* the handler captured
ExpandSucceeds(i) ==
  /\ pending[i].kind = "expand"
  /\ \E result \in ExpResults(pending[i].nodosAExpandir), now \in clock..MaxNow :
       /\ result.success
       /\ Has(result, "expansiones")
       /\ LET updated == expandTree(pending[i].conceptTree, result.expansiones, now)
              layout == layoutFromTree(updated.tree)
          IN /\ ~updated.threw
             /\ conceptTree' = updated.tree
             /\ nodes' = layout.nodes
             /\ edges' = layout.edges
       /\ clock' = now
  /\ expansionCount' = expansionCount + 1
  /\ isExpanding' = FALSE
  /\ pending' = RemoveAt(pending, i)
  /\ lastThrew' = FALSE
  /\ UNCHANGED <<isLoading, error, hasGenerated, currentConfig, requests>>
  /\ UNCHANGED <<api, heap, treeRef, inputRef, inputBefore, lastExp, lastNow,
                 calls, layoutCalls>>

\* the catch block reached with the children of the entries handled before
\* the exception left in the session's tree
ExpandFailsKeepsPartial(i) ==
  /\ pending[i].kind = "expand"
  /\ \/ /\ \E result \in ExpResults(pending[i].nodosAExpandir) : ~result.success
        /\ lastThrew' = FALSE
        /\ conceptTree' = conceptTree
     \/ /\ \E result \in ExpResults(pending[i].nodosAExpandir) :
             result.success /\ ~Has(result, "expansiones")
        /\ lastThrew' = TRUE
        /\ conceptTree' = conceptTree
     \/ /\ \E result \in ExpResults(pending[i].nodosAExpandir) :
             /\ result.success /\ Has(result, "expansiones")
             /\ \E updated \in {expandTree(pending[i].conceptTree,
                                            result.expansiones, clock)} :
                  updated.threw /\ conceptTree' = updated.tree
        /\ lastThrew' = TRUE
  /\ error' = "Error al ampliar la busqueda"
  /\ isExpanding' = FALSE
  /\ pending' = RemoveAt(pending, i)
  /\ UNCHANGED <<nodes, edges, isLoading, hasGenerated, currentConfig,
                 expansionCount, requests, clock>>
  /\ UNCHANGED <<api, heap, treeRef, inputRef, inputBefore, lastExp, lastNow,
                 calls, layoutCalls>>

\* handleExpand after its await: the call failed (lastThrew' = FALSE), or
\* addExpansionsToTree raised on a body without expansiones or on a matched
\* entry without subDetalles (lastThrew' = TRUE)
ExpandFails(i) ==
  /\ pending[i].kind = "expand"
  /\ \/ /\ \E result \in ExpResults(pending[i].nodosAExpandir) : ~result.success
        /\ lastThrew' = FALSE
     \/ /\ \E result \in ExpResults(pending[i].nodosAExpandir) :
             result.success /\ ~Has(result, "expansiones")
        /\ lastThrew' = TRUE
     \/ /\ \E result \in ExpResults(pending[i].nodosAExpandir) :
             /\ result.success /\ Has(result, "expansiones")
             /\ expandTree(pending[i].conceptTree, result.expansiones, clock).threw
        /\ lastThrew' = TRUE
  /\ error' = "Error al ampliar la busqueda"
  /\ isExpanding' = FALSE
  /\ pending' = RemoveAt(pending, i)
  /\ UNCHANGED <<nodes, edges, isLoading, hasGenerated, currentConfig,
                 expansionCount, conceptTree, requests, clock>>
  /\ UNCHANGED <<api, heap, treeRef, inputRef, inputBefore, lastExp, lastNow,
                 calls, layoutCalls>>

\* handleClear (the Limpiar button, shown once hasGenerated)
Clear ==
  /\ hasGenerated
  /\ nodes' = <<>>
  /\ edges' = <<>>
  /\ hasGenerated' = FALSE
  /\ currentConfig' = NullObj
  /\ error' = NoError
  /\ expansionCount' = 0
  /\ conceptTree' = NullObj
  /\ UNCHANGED <<pending, requests, isLoading, isExpanding, clock>>
  /\ UNCHANGED treeVars

Init ==
  /\ api = [tema |-> "", profundidad |-> "basico", conceptos |-> <<>>]
  /\ heap = <<>>
  /\ treeRef = NoTree
  /\ inputRef = NoTree
  /\ inputBefore = NoTree
  /\ lastExp = <<>>
  /\ lastNow = 0
  /\ lastThrew = FALSE
  /\ calls = 0
  /\ layoutCalls = <<>>
  /\ clock = 0
  /\ HomeStart

\* a pending /api/generate call answers
GenerateSucceeded == \E i \in 1..Len(pending) : GenerateSucceeds(i)

GenerateFailed == \E i \in 1..Len(pending) : GenerateFails(i)

\* a pending /api/expand call answers
ExpandSucceeded == \E i \in 1..Len(pending) : ExpandSucceeds(i)

ExpandFailed == \E i \in 1..Len(pending) : ExpandFails(i)

Next ==
  \/ Submit
  \/ Regenerate
  \/ GenerateSucceeded
  \/ GenerateFailed
  \/ ExpandNoLeaves
  \/ ExpandRequest
  \/ ExpandSucceeded
  \/ ExpandFailed
  \/ Clear

Spec == Init /\ [][Next]_vars

(* ------------------------------------------------------------------ *)
(* Home: claims                                                        *)
(* ------------------------------------------------------------------ *)
\* C2: at most one collaborator call (/api/generate or /api/expand) is
\* outstanding at any time.
C2_AtMostOneOutstanding == Len(pending) <= 1

\* C3: when a collaborator call fails, conceptTree, nodes and edges after
\* the failure are what they were before the request was made.
C3_FailureKeepsSession ==
  [][\A i \in 1..Len(pending) :
       (GenerateFails(i) \/ ExpandFails(i)) => Session' = pending[i].before]_vars

\* C4: whenever handleExpand commits its updated tree, the tree it derived
\* it from is the session's conceptTree at that moment.
C4_ExpandCommitsOnCurrentTree ==
  [][\A i \in 1..Len(pending) :
       ExpandSucceeds(i) => pending[i].conceptTree = conceptTree]_vars

(* ------------------------------------------------------------------ *)
(* layoutFromTree called repeatedly                                    *)
(* ------------------------------------------------------------------ *)
RECURSIVE Shape(_)
\* ids, structure and children order of a tree value
Shape(node) ==
  [id |-> node.id, hijos |-> [i \in 1..Len(node.hijos) |-> Shape(node.hijos[i])]]

RECURSIVE Twin(_)
\* a tree with the ids, structure and children order of node and other
\* names, descriptions and colors
Twin(node) ==
  [id |-> node.id,
   nombre |-> "X",
   tipo |-> node.tipo,
   relacion |-> "es",
   color |-> "#000000",
   hijos |-> [i \in 1..Len(node.hijos) |-> Twin(node.hijos[i])]]

\* layoutFromTree(tree), the call recorded
LayoutTree ==
  /\ treeRef # NoTree
  /\ Len(layoutCalls) < MaxLayoutCalls
  /\ layoutCalls' = Append(layoutCalls,
                           [shape |-> Shape(CurrentTree.raiz),
                            out |-> layoutFromTree(CurrentTree)])
  /\ UNCHANGED <<api, heap, treeRef, inputRef, inputBefore, lastExp, lastNow,
                 lastThrew, calls, clock>>
  /\ UNCHANGED homeVars

\* between two layout calls the caller turns to a structurally equal tree
TakeTwin ==
  /\ treeRef # NoTree
  /\ Len(layoutCalls) = 1
  /\ Twin(CurrentTree.raiz) # CurrentTree.raiz
  /\ LET r == Alloc(heap, Twin(CurrentTree.raiz))
     IN /\ heap' = r.heap
        /\ treeRef' = [treeRef EXCEPT !.raiz = r.addr]
  /\ UNCHANGED <<api, inputRef, inputBefore, lastExp, lastNow, lastThrew, calls,
                 layoutCalls, clock>>
  /\ UNCHANGED homeVars

\* one expansion at most, before the first layout call
ExpandBeforeLayout ==
  /\ layoutCalls = <<>>
  /\ calls < 1
  /\ ExpandTree

LayoutNext == BuildTree \/ ExpandBeforeLayout \/ LayoutTree \/ TakeTwin

SpecLayout == TreeInit /\ [][LayoutNext]_vars

\* C10: two layoutFromTree calls on trees with the same ids, structure and
\* children order return the same node positions and the same edges,
\* whatever calls were made before.
C10_LayoutDeterministic ==
  \A a, b \in 1..Len(layoutCalls) :
    layoutCalls[a].shape = layoutCalls[b].shape =>
      /\ Positions(layoutCalls[a].out) = Positions(layoutCalls[b].out)
      /\ layoutCalls[a].out.edges = layoutCalls[b].out.edges

\* a second call, on a twin of an expanded tree with nested siblings
C10_Witness ==
  /\ Len(layoutCalls) >= 2
  /\ calls >= 1
  /\ layoutCalls[1].shape = layoutCalls[2].shape
  /\ layoutCalls[1].out # layoutCalls[2].out
  /\ HasNestedSiblings(CurrentTree.raiz)

(* ------------------------------------------------------------------ *)
(* calcHeight: claims                                                  *)
(* ------------------------------------------------------------------ *)
RECURSIVE Subtrees(_)
\* the nodes of a tree value, each with its subtree
Subtrees(node) ==
  {node} \cup UNION { Subtrees(node.hijos[i]) : i \in 1..Len(node.hijos) }

RECURSIVE Extent(_)
\* the extent of a node as the layout rules state it: one node unit for a
\* leaf, else the larger of one unit and the children's extents stacked
\* with one sibling gap between neighbours
Extent(node) ==
  LET n == Len(node.hijos)
      stacked == SumSeq([i \in 1..n |-> Extent(node.hijos[i])])
                 + (n - 1) * NODE_VERTICAL_GAP
  IN IF n = 0 THEN NODE_HEIGHT
     ELSE IF stacked > NODE_HEIGHT THEN stacked ELSE NODE_HEIGHT

\* C11: for every node of every tree, calcHeight is NODE_HEIGHT for a leaf
\* and max(NODE_HEIGHT, sum of the children's calcHeight + (childCount - 1)
\* * NODE_VERTICAL_GAP) otherwise; so it is at least NODE_HEIGHT and at
\* least the children's heights plus the gaps between them.
C11_CalcHeightIsExtent ==
  treeRef # NoTree =>
    \A node \in Subtrees(CurrentTree.raiz) :
      LET n == Len(node.hijos)
      IN /\ calcHeight(node) = Extent(node)
         /\ calcHeight(node) >= NODE_HEIGHT
         /\ n = 0 => calcHeight(node) = NODE_HEIGHT
         /\ n > 0 =>
              calcHeight(node) >=
                SumSeq([i \in 1..n |-> calcHeight(node.hijos[i])])
                + (n - 1) * NODE_VERTICAL_GAP

\* an expanded tree with a node whose children are not all leaves and
\* whose extent is more than its children's extents added up
C11_Witness ==
  /\ treeRef # NoTree
  /\ calls >= 1
  /\ \E node \in Subtrees(CurrentTree.raiz) :
       /\ Len(node.hijos) >= 2
       /\ \E i \in 1..Len(node.hijos) : Len(node.hijos[i].hijos) >= 2
       /\ calcHeight(node) >
            SumSeq([i \in 1..Len(node.hijos) |-> calcHeight(node.hijos[i])])


(* ------------------------------------------------------------------ *)
(* layoutFromTree: columns, nodes and edges                            *)
(* ------------------------------------------------------------------ *)
RECURSIVE PreOrder(_, _, _)
\* the nodes of a tree value in pre-order, each with its depth and the id
\* of its parent (parent is <<>> for the root)
PreOrder(node, depth, parent) ==
  << [id |-> node.id, depth |-> depth, parent |-> parent,
      tipo |-> node.tipo, nombre |-> node.nombre, nkids |-> Len(node.hijos),
      color |-> Get(node, "color")] >>
  \o Flatten([i \in 1..Len(node.hijos) |->
                PreOrder(node.hijos[i], depth + 1, node.id)])

CurrentNodes == PreOrder(CurrentTree.raiz, 0, <<>>)

\* C12: every node placed by layoutFromTree has x = START_X + depth *
\* LEVEL_X_GAP, depth being its distance from the root (nodes added by
\* expansion included); nodes at the same depth have the same x.
C12_ColumnByDepth ==
  treeRef # NoTree =>
    \A placed \in {CurrentLayout.nodes}, walked \in {CurrentNodes} :
       /\ Len(placed) = Len(walked)
       /\ \A i \in 1..Len(placed) :
            /\ placed[i].id = walked[i].id
            /\ placed[i].position.x = START_X + walked[i].depth * LEVEL_X_GAP
       /\ \A i, j \in 1..Len(placed) :
            walked[i].depth = walked[j].depth =>
              placed[i].position.x = placed[j].position.x

\* an expanded node at depth 3 or more, and two nodes of one depth of which
\* one is a leaf and the other is not
C12_Witness ==
  /\ treeRef # NoTree
  /\ calls >= 1
  /\ \E i \in 1..Len(CurrentNodes) :
       CurrentNodes[i].tipo = "expanded" /\ CurrentNodes[i].depth >= 3
  /\ \E i, j \in 1..Len(CurrentNodes) :
       /\ CurrentNodes[i].depth = CurrentNodes[j].depth
       /\ CurrentNodes[i].depth >= 2
       /\ CurrentNodes[i].nkids = 0
       /\ CurrentNodes[j].nkids >= 2

\* the parent-child pairs of a tree walked in pre-order, as edges name them
ParentChildPairs(walked) ==
  [k \in 1..(Len(walked) - 1) |->
     [source |-> walked[k + 1].parent, target |-> walked[k + 1].id]]

\* C13: layoutFromTree emits one placed node per tree node and one edge per
\* parent-child pair, with source the parent's id and target the child's
\* id; there is one edge less than nodes, and every non-root node is the
\* target of exactly one edge.
C13_OneNodeOneEdge ==
  treeRef # NoTree =>
    \A layout \in {CurrentLayout}, walked \in {CurrentNodes} :
      LET placed == layout.nodes
          drawn == layout.edges
      IN /\ [i \in 1..Len(placed) |-> placed[i].id]
              = [i \in 1..Len(walked) |-> walked[i].id]
         /\ [k \in 1..Len(drawn) |->
               [source |-> drawn[k].source, target |-> drawn[k].target]]
              = ParentChildPairs(walked)
         /\ Len(drawn) = Len(placed) - 1
         /\ \A i \in 2..Len(placed) :
              Cardinality({k \in 1..Len(drawn) : drawn[k].target = placed[i].id}) = 1

(* ------------------------------------------------------------------ *)
(* Node ids                                                            *)
(* ------------------------------------------------------------------ *)
\* C14: in the tree buildTreeFromApi returns and in every tree reached from
\* it by addExpansionsToTree calls, the node ids are pairwise distinct.
C14_IdsDistinct ==
  treeRef # NoTree =>
    \A walked \in {CurrentNodes} :
      \A i, j \in 1..Len(walked) : i # j => walked[i].id # walked[j].id

Cleared ==
  /\ nodes = <<>>
  /\ edges = <<>>
  /\ conceptTree = NullObj
  /\ currentConfig = NullObj

\* C16: after handleClear, nodes and edges are empty and conceptTree and
\* currentConfig are null, and they stay so until the user next requests a
\* generate: a call in flight when clear ran changes none of them when it
\* resolves.
C16_ClearedUntilGenerate ==
  [][/\ Clear => Cleared'
     /\ (Cleared /\ ~(Submit \/ Regenerate)) => Cleared']_vars

(* ------------------------------------------------------------------ *)
(* buildTreeFromApi on its own                                         *)
(* ------------------------------------------------------------------ *)
\* a concepto whose first subconcepto carries two example items
RichConcept ==
  [nombre |-> "C",
   subconceptos |-> << [nombre |-> "D", ejemplos |-> <<"E", "F">>], SubA, SubB >>]

BuildPool == ConceptPool \cup {RichConcept}

\* lists long enough to run through the palette and start it again
LongLists ==
  { [i \in 1..MaxBranches |-> c] :
      c \in { [nombre |-> "B", subconceptos |-> <<SubB>>], [nombre |-> "A"] } }
  \cup { [i \in 1..MaxBranches |->
           IF i = MaxBranches
           THEN [nombre |-> "A", subconceptos |-> <<SubA, SubB>>]
           ELSE [nombre |-> "D"]] }

\* the arguments buildTreeFromApi is called with: the topic may be empty,
\* the list of conceptos may be empty or longer than the palette
BuildPayloads ==
  [tema : {"", "A", "T"},
   profundidad : {"basico", "intermedio", "avanzado"},
   conceptos : SeqsUpTo(BuildPool, MaxConceptos) \cup LongLists]

BuildInit == api \in BuildPayloads /\ TreeStart

BuildNext == BuildTree

SpecBuild == BuildInit /\ [][BuildNext]_vars

\* what generateConceptMap resolves to for the arguments in api when
\* /api/generate answers with the conceptos in api
BuildResponse ==
  generateConceptMap([tema |-> api.tema, profundidad |-> api.profundidad],
                     [success |-> TRUE, conceptos |-> api.conceptos])

\* C17: called with an empty topic or an empty list of branches,
\* buildTreeFromApi yields no tree, and generateConceptMap reports
\* success = false with no nodes and no edges.
C17_EmptyInputRejected ==
  [][(api.tema = "" \/ api.conceptos = <<>>) =>
       /\ treeRef' = NoTree
       /\ ~BuildResponse.success
       /\ ~Has(BuildResponse, "data")]_vars

\* the names of the children of a node, in order
KidNames(node) == [i \in 1..Len(node.hijos) |-> node.hijos[i].nombre]

\* the children of a node are childless nodes of kind tipo
LeafKids(node, tipo) ==
  \A i \in 1..Len(node.hijos) :
    node.hijos[i].tipo = tipo /\ node.hijos[i].hijos = <<>>

\* the sub-branches and the example items an input carries (none when the
\* property is absent)
SubsOf(concepto) ==
  IF Has(concepto, "subconceptos") THEN concepto.subconceptos ELSE <<>>

ExamplesOf(sub) == IF Has(sub, "ejemplos") THEN sub.ejemplos ELSE <<>>

\* C19: buildTreeFromApi materialises levels by depth profile: with
\* 'basico' every concept node is a leaf; with 'intermedio' each sub-branch
\* is one subconcept child, in input order, and there is no example node;
\* with 'avanzado' each sub-branch also gets one 'example' child per
\* example item, in input order.
C19_LevelsByDepthProfile ==
  treeRef # NoTree =>
    \A raiz \in {CurrentTree.raiz} :
      /\ Len(raiz.hijos) = Len(api.conceptos)
      /\ \A i \in 1..Len(raiz.hijos) :
           LET branch == raiz.hijos[i]
               subs == SubsOf(api.conceptos[i])
           IN /\ branch.tipo = "concept"
              /\ api.profundidad = "basico" => branch.hijos = <<>>
              /\ api.profundidad # "basico" =>
                   /\ KidNames(branch) = [j \in 1..Len(subs) |-> subs[j].nombre]
                   /\ \A j \in 1..Len(branch.hijos) :
                        branch.hijos[j].tipo = "subconcept"
              /\ api.profundidad = "intermedio" => LeafKids(branch, "subconcept")
              /\ api.profundidad = "avanzado" =>
                   \A j \in 1..Len(branch.hijos) :
                     /\ KidNames(branch.hijos[j]) = ExamplesOf(subs[j])
                     /\ LeafKids(branch.hijos[j], "example")

\* an 'avanzado' tree with a subconcept that has two example children, and
\* a sibling subconcept without example items
C19_Witness ==
  /\ treeRef # NoTree
  /\ api.profundidad = "avanzado"
  /\ \E i \in 1..Len(CurrentTree.raiz.hijos) :
       LET branch == CurrentTree.raiz.hijos[i]
       IN \E j, k \in 1..Len(branch.hijos) :
            Len(branch.hijos[j].hijos) = 2 /\ branch.hijos[k].hijos = <<>>

(* ------------------------------------------------------------------ *)
(* Colors                                                              *)
(* ------------------------------------------------------------------ *)
\* payloads for the colors: lists longer than the palette, and short ones
\* whose concept may be named like the topic
ColorPayloads ==
  [tema : {"A", "T"},
   profundidad : {"intermedio", "avanzado"},
   conceptos : LongLists \cup SeqsUpTo(ConceptPool, 1)]

ColorsInit == api \in ColorPayloads /\ TreeStart

SpecColors == ColorsInit /\ [][TreeNext]_vars

RECURSIVE ColorsBelow(_)
\* the colors of a node and of its descendants
ColorsBelow(node) ==
  {Get(node, "color")}
  \cup UNION { ColorsBelow(node.hijos[i]) : i \in 1..Len(node.hijos) }

\* C18: the top-level branch at input index i has the color
\* BRANCH_COLORS[i mod 10], and every node below a top-level branch has the
\* color of that branch, in the built tree and after any addExpansionsToTree
\* calls.
C18_BranchColorInherited ==
  treeRef # NoTree =>
    \A raiz \in {CurrentTree.raiz} :
      /\ Len(raiz.hijos) >= Len(api.conceptos)
      /\ \A i \in 1..Len(api.conceptos) :
           raiz.hijos[i].color = BRANCH_COLORS[((i - 1) % 10) + 1]
      /\ \A i \in 1..Len(raiz.hijos) :
           ColorsBelow(raiz.hijos[i]) = {Get(raiz.hijos[i], "color")}

\* more branches than palette entries, and the branch that starts the
\* palette again has been expanded
C18_Witness ==
  /\ treeRef # NoTree
  /\ calls >= 1
  /\ Len(api.conceptos) > Len(BRANCH_COLORS)
  /\ \E k \in 1..Len(CurrentTree.raiz.hijos[Len(BRANCH_COLORS) + 1].hijos) :
       CurrentTree.raiz.hijos[Len(BRANCH_COLORS) + 1].hijos[k].tipo = "expanded"

(* ------------------------------------------------------------------ *)
(* Home: the targets of an expansion                                   *)
(* ------------------------------------------------------------------ *)
\* the nodes of a walked tree that have no children and kind concept or
\* subconcept, in pre-order
Eligible(walked) ==
  SelectSeq(walked, LAMBDA n : n.nkids = 0 /\ n.tipo \in {"concept", "subconcept"})

\* the names of the first four of them at most
FirstTargets(walked) ==
  LET e == Eligible(walked)
  IN [k \in 1..(IF Len(e) < 4 THEN Len(e) ELSE 4) |-> e[k].nombre]

\* C20: the names handleExpand sends to /api/expand are the names of the
\* first (at most 4) nodes, in pre-order of the tree, without children and
\* of kind concept or subconcept; the root, example nodes, expanded nodes
\* and nodes with children are never among them.
C20_TargetsAreEligibleLeaves ==
  \A i \in 1..Len(pending) :
    pending[i].kind = "expand" =>
      \A walked \in {PreOrder(pending[i].conceptTree.raiz, 0, <<>>)} :
        /\ pending[i].nodosAExpandir = FirstTargets(walked)
        /\ Len(pending[i].nodosAExpandir) <= 4

\* a request on a tree that holds expanded leaves and more than four
\* eligible ones
C20_Witness ==
  \E i \in 1..Len(pending) :
    /\ pending[i].kind = "expand"
    /\ \E walked \in {PreOrder(pending[i].conceptTree.raiz, 0, <<>>)} :
         /\ Len(Eligible(walked)) > 4
         /\ \E k \in 1..Len(walked) :
              walked[k].tipo = "expanded" /\ walked[k].nkids = 0

(* ------------------------------------------------------------------ *)
(* addExpansionsToTree: where the new children go                      *)
(* ------------------------------------------------------------------ *)
RECURSIVE GrewOnlyAtLeaves(_, _)
\* every node of the argument that has more children in the result had
\* none in the argument
GrewOnlyAtLeaves(after, before) ==
  /\ Len(after.hijos) > Len(before.hijos) => Len(before.hijos) = 0
  /\ \A i \in 1..Len(before.hijos) :
       i <= Len(after.hijos) => GrewOnlyAtLeaves(after.hijos[i], before.hijos[i])

\* C21: addExpansionsToTree attaches new children only under nodes that
\* had no children in the input tree.
C21_OnlyLeavesGrow ==
  Returned =>
    \A after \in {CurrentTree.raiz} : GrewOnlyAtLeaves(after, inputBefore.raiz)

(* ------------------------------------------------------------------ *)
(* layoutFromTree: children stacked inside the parent's extent         *)
(* ------------------------------------------------------------------ *)
\* the top of the slot of child i when the children of node are stacked
\* from top: each slot is calcHeight of the child, with one sibling gap
\* between neighbours (quarter pixels)
RunningY(node, top, i) ==
  top + SumSeq([k \in 1..(i - 1) |->
                  (calcHeight(node.hijos[k]) + NODE_VERTICAL_GAP) * YScale])

RECURSIVE StackedBelow(_, _, _)
\* the node pushed at index idx, and every node below it, has its children
\* stacked from its own top edge
StackedBelow(node, idx, placed) ==
  LET n == Len(node.hijos)
      cy == placed[idx].position.y
      top == cy - HalfExtentY(node)
      y(i) == placed[ChildIndex(node, idx, i)].position.y
  IN n > 0 =>
       /\ \A i \in 1..n :
            /\ y(i) = RunningY(node, top, i) + HalfExtentY(node.hijos[i])
            /\ StackedBelow(node.hijos[i], ChildIndex(node, idx, i), placed)
       /\ \A i \in 1..(n - 1) : y(i) < y(i + 1)
       /\ 2 * cy = (y(1) - HalfExtentY(node.hijos[1]))
                   + (y(n) + HalfExtentY(node.hijos[n]))

\* C22: every node other than the root that has children and is placed at
\* center cy with extent h = calcHeight(node) has its children stacked from
\* cy - h/2: child i is at runningY + calcHeight(child i)/2, runningY
\* advancing by calcHeight(child i) + NODE_VERTICAL_GAP; the children's y
\* grow strictly, and the parent's y is the midpoint of the span from the
\* first child's top to the last child's bottom.
C22_ChildrenStackedFromTop ==
  treeRef # NoTree =>
    \A placed \in {CurrentLayout.nodes}, raiz \in {CurrentTree.raiz} :
      \A b \in 1..Len(raiz.hijos) :
        StackedBelow(raiz.hijos[b], ChildIndex(raiz, 1, b), placed)

\* an expanded tree with a branch that has two children of which one has
\* two children itself
C22_Witness ==
  /\ treeRef # NoTree
  /\ calls >= 1
  /\ \E b \in 1..Len(CurrentTree.raiz.hijos) :
       HasNestedSiblings(CurrentTree.raiz.hijos[b])

(* ------------------------------------------------------------------ *)
(* layoutFromTree: the root and its branches                           *)
(* ------------------------------------------------------------------ *)
\* the top of top-level branch k when the branches are stacked from 0 with
\* NODE_VERTICAL_GAP * BRANCH_GAP_MULTIPLIER between neighbours (quarter
\* pixels)
BranchTop(raiz, k) ==
  SumSeq([j \in 1..(k - 1) |->
            calcHeight(raiz.hijos[j]) * YScale
            + (NODE_VERTICAL_GAP * BRANCH_GAP_MULTIPLIER_TENTHS * YScale) \div 10])

\* C23: layoutFromTree places the root at x = START_X and at the vertical
\* centre of the total extent of its top-level branches: branch 0 starts at
\* 0, branch k starts where branch k-1 ends plus NODE_VERTICAL_GAP *
\* BRANCH_GAP_MULTIPLIER, each branch node is at the centre of its own
\* extent, and the total extent runs from the top of the first branch to
\* the bottom of the last.  (A root without branches has no first and no
\* last branch: the claim describes the roots that have some.)
C23_RootCentredOnBranches ==
  treeRef # NoTree =>
    \A placed \in {CurrentLayout.nodes}, raiz \in {CurrentTree.raiz} :
      LET n == Len(raiz.hijos)
      IN /\ placed[1].id = raiz.id
         /\ placed[1].position.x = START_X
         /\ \A k \in 1..n :
              placed[ChildIndex(raiz, 1, k)].position.y
                = BranchTop(raiz, k) + HalfExtentY(raiz.hijos[k])
         /\ n >= 1 =>
              2 * placed[1].position.y
                = BranchTop(raiz, 1)
                  + (BranchTop(raiz, n) + calcHeight(raiz.hijos[n]) * YScale)

\* an expanded tree with two branches of different extents
C23_Witness ==
  /\ treeRef # NoTree
  /\ calls >= 1
  /\ Len(CurrentTree.raiz.hijos) >= 2
  /\ calcHeight(CurrentTree.raiz.hijos[1]) # calcHeight(CurrentTree.raiz.hijos[2])

(* ------------------------------------------------------------------ *)
(* Home: an expansion with nothing to expand                           *)
(* ------------------------------------------------------------------ *)
\* the session's tree holds no childless node of kind concept or subconcept
NothingToExpand ==
  /\ conceptTree # NullObj
  /\ Eligible(PreOrder(conceptTree.raiz, 0, <<>>)) = <<>>

\* C24: when handleExpand runs and the tree has no childless concept or
\* subconcept node, it reports 'No hay mas conceptos para expandir', makes
\* no /api/expand call, leaves conceptTree, nodes, edges and expansionCount
\* as they were and ends with isExpanding false.
C24_NothingToExpandReported ==
  [][(NothingToExpand /\ (ExpandNoLeaves \/ ExpandRequest)) =>
       /\ error' = "No hay mas conceptos para expandir"
       /\ pending' = pending
       /\ requests' = requests
       /\ conceptTree' = conceptTree
       /\ nodes' = nodes
       /\ edges' = edges
       /\ expansionCount' = expansionCount
       /\ isExpanding' = FALSE]_vars

\* the message is shown over a map whose leaves were all expanded
C24_Witness ==
  /\ error = "No hay mas conceptos para expandir"
  /\ expansionCount >= 1
  /\ NothingToExpand
  /\ nodes # <<>>
  /\ ~isExpanding

(* ------------------------------------------------------------------ *)
(* Home: the map shown is the layout of the tree held                  *)
(* ------------------------------------------------------------------ *)
\* C25: whenever no collaborator call is in flight and conceptTree is not
\* null, nodes and edges are layoutFromTree(conceptTree).
C25_MapIsLayoutOfTree ==
  (pending = <<>> /\ conceptTree # NullObj) =>
    \A layout \in {layoutFromTree(conceptTree)} :
      nodes = layout.nodes /\ edges = layout.edges

\* at rest after an expansion that added nodes, on a second map
C25_Witness ==
  /\ pending = <<>>
  /\ conceptTree # NullObj
  /\ expansionCount >= 1
  /\ requests >= 3
  /\ \E k \in 1..Len(nodes) : nodes[k].data.nodeType = "example"

(* ------------------------------------------------------------------ *)
(* layoutFromTree: nodes of one column                                 *)
(* ------------------------------------------------------------------ *)
\* the distance between two ordinates
Dist(a, b) == IF a < b THEN b - a ELSE a - b

\* C26: in the layout of every tree, any two distinct nodes at the same
\* depth (siblings or cousins) have y differing by at least NODE_HEIGHT +
\* NODE_VERTICAL_GAP.
C26_ColumnNodesApart ==
  treeRef # NoTree =>
    \A placed \in {CurrentLayout.nodes}, walked \in {CurrentNodes} :
      \A i, j \in 1..Len(placed) :
        (i < j /\ walked[i].depth = walked[j].depth) =>
          Dist(placed[i].position.y, placed[j].position.y)
            >= (NODE_HEIGHT + NODE_VERTICAL_GAP) * YScale

\* an expanded tree with cousins below one branch and cousins in two
\* branches
C26_Witness ==
  /\ treeRef # NoTree
  /\ calls >= 1
  /\ \E walked \in {CurrentNodes} :
       /\ \E i, j \in 1..Len(walked) :
            /\ walked[i].depth = 3 /\ walked[j].depth = 3
            /\ walked[i].parent # walked[j].parent
            /\ \E a, b \in 1..Len(walked) :
                 /\ walked[a].id = walked[i].parent
                 /\ walked[b].id = walked[j].parent
                 /\ walked[a].parent = walked[b].parent
       /\ \E i, j \in 1..Len(walked) :
            /\ walked[i].depth = 2 /\ walked[j].depth = 2
            /\ walked[i].parent # walked[j].parent

(* ------------------------------------------------------------------ *)
(* Home: what the Ampliar button can rely on                           *)
(* ------------------------------------------------------------------ *)
\* C27: whenever canExpand holds, conceptTree and currentConfig are both
\* not null, after any sequence of generate (successful or failed),
\* regenerate, expand and clear.
C27_CanExpandHasTree ==
  canExpand => (conceptTree # NullObj /\ currentConfig # NullObj)

(* ------------------------------------------------------------------ *)
(* Home: the busy flags come down                                      *)
(* ------------------------------------------------------------------ *)
\* every collaborator call in flight eventually resolves or rejects, and
\* the continuation of the awaited call then runs
SpecFair ==
  /\ Spec
  /\ WF_vars(GenerateFailed \/ GenerateSucceeded)
  /\ WF_vars(ExpandFailed \/ ExpandSucceeded)

\* C28: provided every collaborator call eventually resolves or rejects,
\* every generate request is eventually followed by isLoading = false and
\* every expand request by isExpanding = false.
C28_BusyFlagsComeDown ==
  /\ isLoading ~> ~isLoading
  /\ isExpanding ~> ~isExpanding

\* a generate call and an expand call in flight at once, both flags up
C28_Witness ==
  /\ isLoading /\ isExpanding
  /\ \E i, j \in 1..Len(pending) :
       pending[i].kind = "generate" /\ pending[j].kind = "expand"

C30_RootChildrenAreConcepts ==
  treeRef # NoTree =>
    \A raiz \in {CurrentTree.raiz} :
      \A b \in 1..Len(raiz.hijos) : raiz.hijos[b].tipo = "concept"

====
